---- MODULE Spec2Model ----
(***************************************************************************)
(* A model of the e-commerce backend (Express router over a Mongo store):  *)
(* the Users, Products and Orders collections, the route table in its      *)
(* registration order, the auth / admin gates, and every handler cut into  *)
(* one step per store operation (each `await` of the source), so that      *)
(* requests in flight interleave exactly where the code yields.            *)
(***************************************************************************)
EXTENDS Integers, Sequences, FiniteSets, TLC

(* ------------------------------------------------------------------ *)
(* Identifiers.  A well-formed ObjectId is modelled by a short name; a  *)
(* path segment such as "cart" is a string that is no ObjectId.         *)
(* ------------------------------------------------------------------ *)
UserIdSeq == <<"u1", "u2", "a1", "u3", "u4", "u5", "u6">>
ProductIdSeq == <<"p1", "p2", "p3", "p4", "p5">>
OrderIdSeq == <<"o1", "o2", "o3", "o4", "o5", "o6">>
SeqRange(s) == {s[i] : i \in 1..Len(s)}
AbsentId == "x9"
ObjectIds == SeqRange(UserIdSeq) \cup SeqRange(ProductIdSeq) \cup SeqRange(OrderIdSeq) \cup {AbsentId}
IsObjectId(s) == s \in ObjectIds

(* Bounds of the model. *)
MaxOrders == 2
MaxReviews == 3
MaxSignups == 2
MaxCart == 3
MaxCreates == 2

(* ------------------------------------------------------------------ *)
(* Schemas.                                                             *)
(* ------------------------------------------------------------------ *)
PaymentMethods == {"credit_card", "debit_card", "upi", "net_banking", "wallet"}
OrderStatuses == {"pending", "confirmed", "processing", "shipped", "delivered", "cancelled"}
TrackingStatuses == {"not_shipped", "in_transit", "out_for_delivery", "delivered"}
MinOrderQuantity == 1
MinRating == 1
MaxRating == 5

(* new Order({...}).save(): the document validates against orderSchema. *)
OrderValid(o) ==
  /\ o.paymentMethod \in PaymentMethods
  /\ o.deliveryAddress # ""
  /\ \A i \in 1..Len(o.items) : o.items[i].quantity >= MinOrderQuantity

(* userSchema.email is a unique index: an insert of a second document    *)
(* with the same email is refused by the store.                          *)
EmailTaken(us, email) == \E u \in DOMAIN us : us[u].email = email

(* ------------------------------------------------------------------ *)
(* The route table, in registration order.  A pattern segment is        *)
(* <<"lit", s>> or <<"param", name>>.                                   *)
(* ------------------------------------------------------------------ *)
L(s) == <<"lit", s>>
P(s) == <<"param", s>>
Route(m, pat, chain, h) == [method |-> m, pattern |-> pat, chain |-> chain, handler |-> h]
None == <<>>
Auth == <<"auth">>
AuthAdmin == <<"auth", "admin">>

Routes ==
  << Route("POST", <<L("signup")>>, None, "signup"),
     Route("POST", <<L("login")>>, None, "login"),
     Route("GET", <<L("admin"), L("users")>>, AuthAdmin, "listUsers"),
     Route("GET", <<L("admin"), L("users"), P("userId")>>, AuthAdmin, "getUser"),
     Route("GET", <<L("admin"), L("users-stats")>>, AuthAdmin, "userStats"),
     Route("POST", <<L("add")>>, AuthAdmin, "addProduct"),
     Route("POST", <<L("assign")>>, AuthAdmin, "assignAdmin"),
     Route("PUT", <<L("update"), P("id")>>, AuthAdmin, "updateProduct"),
     Route("GET", <<L("admin"), L("reviews")>>, AuthAdmin, "listAllReviews"),
     Route("GET", <<L("orders"), L("payment")>>, AuthAdmin, "listPayments"),
     Route("GET", <<L("delivery-tracking")>>, AuthAdmin, "listDeliveryTracking"),
     Route("POST", <<L("delivery-tracking")>>, AuthAdmin, "updateDeliveryTracking"),
     Route("GET", <<>>, None, "listProducts"),
     Route("GET", <<P("id")>>, None, "getProduct"),
     Route("POST", <<L("cart"), L("add")>>, None, "addToCart"),
     Route("DELETE", <<L("cart"), L("delete"), P("productId")>>, None, "removeFromCart"),
     Route("GET", <<L("cart")>>, None, "getCart"),
     Route("POST", <<L("orders"), L("place")>>, Auth, "placeOrder"),
     Route("GET", <<L("user"), L("orders")>>, Auth, "listUserOrders"),
     Route("DELETE", <<L("orders"), P("orderId")>>, Auth, "cancelOrder"),
     Route("PUT", <<L("profile"), L("update")>>, Auth, "updateProfile"),
     Route("POST", <<P("productId"), L("reviews")>>, Auth, "postReview") >>

(* the middleware registered on a route, before its handler *)
ChainWithoutAdmin(rt) == IF rt.handler = "updateProduct" THEN Auth ELSE rt.chain

ChainOf(rt) == rt.chain

SegMatches(pseg, seg) == pseg[1] = "param" \/ pseg[2] = seg

Matches(rt, m, path) ==
  /\ rt.method = m
  /\ Len(rt.pattern) = Len(path)
  /\ \A i \in 1..Len(path) : SegMatches(rt.pattern[i], path[i])

(* The router tries the routes in registration order: 0 when none matches. *)
Dispatch(m, path) ==
  LET hits == {k \in 1..Len(Routes) : Matches(Routes[k], m, path)}
  IN IF hits = {} THEN 0 ELSE CHOOSE k \in hits : \A j \in hits : k <= j

(* The value of the route's (only) parameter, "" when it has none. *)
ParamOf(rt, path) ==
  LET ks == {i \in 1..Len(path) : rt.pattern[i][1] = "param"}
  IN IF ks = {} THEN "" ELSE path[CHOOSE i \in ks : TRUE]

(* ------------------------------------------------------------------ *)
(* Auth gate and admin gate.  A token is [kind, id, role] with kind     *)
(* "none", "invalid", "expired" or "valid".                             *)
(* ------------------------------------------------------------------ *)
NoToken == [kind |-> "none", id |-> "", role |-> ""]
TokenOk(tok) == tok.kind = "valid"
AdminOk(role) == role = "admin"

(* The status with which the middleware chain rejects, 0 when it passes. *)
GateStatus(chain, tok) ==
  IF \E i \in 1..Len(chain) : chain[i] = "auth" /\ ~TokenOk(tok) THEN 401
  ELSE IF \E i \in 1..Len(chain) : chain[i] = "admin" /\ ~AdminOk(tok.role) THEN 403
  ELSE 0

(* req.user exists only behind the auth gate. *)
HasAuth(chain) == \E i \in 1..Len(chain) : chain[i] = "auth"

(* ------------------------------------------------------------------ *)
(* State.                                                               *)
(*   users    : id -> [email, role, name, cart]   (Users collection)    *)
(*   products : id -> [price, stock, reviews, averageRating,            *)
(*                     totalReviews, assignedAdmin]                     *)
(*   orders   : id -> [userId, items, totalAmount, deliveryAddress,     *)
(*                     paymentMethod, paymentStatus, orderStatus,       *)
(*                     tracking]                                        *)
(*   created  : number of Order documents ever constructed (ids are     *)
(*              never reused)                                           *)
(*   req      : the requests in flight, one record per connection slot  *)
(* averageRating is kept in hundredths.                                 *)
(* ------------------------------------------------------------------ *)
VARIABLES users, products, orders, created, req

vars == <<users, products, orders, created, req>>
store == <<users, products, orders, created>>

Slots == {"r1", "r2"}

NoInput ==
  [ bUserId |-> "", qUserId |-> "", productId |-> "", quantity |-> 0,
    items |-> <<>>, deliveryAddress |-> "", paymentMethod |-> "",
    rating |-> 0, status |-> "", orderId |-> "", email |-> "", name |-> "",
    password |-> "", role |-> "", stock |-> -1, price |-> 0, adminId |-> "" ]

NoProduct == [price |-> 0, stock |-> 0]
NoOrder == [userId |-> "", items |-> <<>>, orderStatus |-> ""]

Idle ==
  [ h |-> "idle", pc |-> "idle", reached |-> FALSE, method |-> "", path |-> <<>>,
    tok |-> NoToken, uid |-> "", role |-> "", param |-> "", in |-> NoInput,
    actor |-> "", i |-> 0, total |-> 0, processed |-> <<>>, prod |-> NoProduct,
    order |-> NoOrder, oid |-> "", seen |-> <<>>, avg |-> 0, n |-> 0,
    status |-> 0, msg |-> "", res |-> <<>>, resNull |-> FALSE ]

Done(q, st, m) == [q EXCEPT !.pc = "done", !.status = st, !.msg = m]
Goto(q, l) == [q EXCEPT !.pc = l]
At(r, h, l) == req[r].h = h /\ req[r].pc = l
Set(r, q) == req' = [req EXCEPT ![r] = q]

(* a || b || c on strings, "" being the falsy one *)
Or3(a, b, c) == IF a # "" THEN a ELSE IF b # "" THEN b ELSE c

(* ------------------------------------------------------------------ *)
(* A request arrives: routing, then the middleware chain.  A rejected   *)
(* request ends here; an accepted one enters its handler at "start".    *)
(* ------------------------------------------------------------------ *)
Receive(r, m, path, tok, body) ==
  /\ req[r].h = "idle"
  /\ LET k == Dispatch(m, path)
         q0 == [Idle EXCEPT !.method = m, !.path = path, !.tok = tok, !.in = body]
     IN IF k = 0
        THEN Set(r, Done([q0 EXCEPT !.h = "none"], 404, "Route not found"))
        ELSE LET rt == Routes[k]
                 g == GateStatus(ChainOf(rt), tok)
                 q1 == [q0 EXCEPT !.h = rt.handler, !.param = ParamOf(rt, path)]
             IN IF g # 0
                THEN Set(r, Done(q1, g, "rejected"))
                ELSE Set(r, [q1 EXCEPT !.reached = TRUE, !.pc = "start",
                                       !.uid = IF HasAuth(ChainOf(rt)) THEN tok.id ELSE "",
                                       !.role = IF HasAuth(ChainOf(rt)) THEN tok.role ELSE ""])
  /\ UNCHANGED store

(* The response is sent and the connection slot is free again. *)
Respond(r) ==
  /\ req[r].pc = "done"
  /\ Set(r, Idle)
  /\ UNCHANGED store

(* ------------------------------------------------------------------ *)
(* Store operators.                                                     *)
(* ------------------------------------------------------------------ *)
(* populate("cart.productId", ...): the join of a cart with its products *)
Populate(cart, ps) ==
  [ i \in 1..Len(cart) |->
      IF cart[i].productId \in DOMAIN ps
      THEN [productId |-> cart[i].productId, quantity |-> cart[i].quantity,
            price |-> ps[cart[i].productId].price]
      ELSE [productId |-> "null", quantity |-> cart[i].quantity, price |-> 0] ]

(* What the getCart handler answers for an existing user. *)
CartView(us, ps, userId) == Populate(us[userId].cart, ps)

(* { $push: { cart: item } } *)
PushCartMerge(cart, item) ==
  IF \E i \in 1..Len(cart) : cart[i].productId = item.productId
  THEN [ i \in 1..Len(cart) |->
           IF cart[i].productId = item.productId
           THEN [cart[i] EXCEPT !.quantity = @ + item.quantity] ELSE cart[i] ]
  ELSE Append(cart, item)

PushCart(cart, item) == Append(cart, item)

(* { $pull: { cart: { productId } } } *)
PullCartFirst(cart, pid) ==
  LET ks == {i \in 1..Len(cart) : cart[i].productId = pid}
  IN IF ks = {} THEN cart
     ELSE LET k == CHOOSE i \in ks : \A j \in ks : i <= j
          IN SubSeq(cart, 1, k - 1) \o SubSeq(cart, k + 1, Len(cart))

PullCart(cart, pid) == SelectSeq(cart, LAMBDA e : e.productId # pid)

(* ------------------------------------------------------------------ *)
(* POST /cart/add                                                       *)
(* ------------------------------------------------------------------ *)
AddToCartFind(r) ==
  /\ At(r, "addToCart", "start")
  /\ LET q == req[r]
         userId == Or3(q.uid, q.in.bUserId, q.in.qUserId)
     IN Set(r, IF q.in.productId = "" \/ q.in.quantity = 0
                 THEN Done(q, 400, "Product ID and quantity are required")
               ELSE IF userId = ""
                 THEN Done(q, 400, "userId is required (provide token or userId)")
               ELSE IF ~IsObjectId(q.in.productId)
                 THEN Done(q, 500, "CastError")
               ELSE IF q.in.productId \notin DOMAIN products
                 THEN Done(q, 404, "Product not found")
               ELSE [Goto(q, "push") EXCEPT !.actor = userId])
  /\ UNCHANGED store

AddToCartPush(r) ==
  /\ At(r, "addToCart", "push")
  /\ LET q == req[r]
         item == [productId |-> q.in.productId, quantity |-> q.in.quantity]
     IN IF ~IsObjectId(q.actor)
        THEN Set(r, Done(q, 500, "CastError")) /\ UNCHANGED users
        ELSE /\ Set(r, Goto(q, "read"))
             /\ users' = IF q.actor \in DOMAIN users
                         THEN [users EXCEPT ![q.actor].cart = PushCart(@, item)]
                         ELSE users
  /\ UNCHANGED <<products, orders, created>>

AddToCartRead(r) ==
  /\ At(r, "addToCart", "read")
  /\ LET q == req[r]
     IN Set(r, IF q.actor \in DOMAIN users
               THEN [Done(q, 200, "Product added to cart successfully")
                       EXCEPT !.res = CartView(users, products, q.actor)]
               ELSE [Done(q, 200, "Product added to cart successfully")
                       EXCEPT !.resNull = TRUE])
  /\ UNCHANGED store

(* ------------------------------------------------------------------ *)
(* DELETE /cart/delete/:productId                                       *)
(* ------------------------------------------------------------------ *)
RemoveFromCartPull(r) ==
  /\ At(r, "removeFromCart", "start")
  /\ LET q == req[r]
         userId == Or3(q.uid, q.in.bUserId, q.in.qUserId)
     IN IF userId = ""
        THEN Set(r, Done(q, 400, "userId is required (provide token or userId)"))
             /\ UNCHANGED users
        ELSE IF ~IsObjectId(userId) \/ ~IsObjectId(q.param)
        THEN Set(r, Done(q, 500, "CastError")) /\ UNCHANGED users
        ELSE /\ Set(r, [Goto(q, "read") EXCEPT !.actor = userId])
             /\ users' = IF userId \in DOMAIN users
                         THEN [users EXCEPT ![userId].cart = PullCart(@, q.param)]
                         ELSE users
  /\ UNCHANGED <<products, orders, created>>

RemoveFromCartRead(r) ==
  /\ At(r, "removeFromCart", "read")
  /\ LET q == req[r]
     IN Set(r, IF q.actor \in DOMAIN users
               THEN [Done(q, 200, "Product removed from cart successfully")
                       EXCEPT !.res = CartView(users, products, q.actor)]
               ELSE [Done(q, 200, "Product removed from cart successfully")
                       EXCEPT !.resNull = TRUE])
  /\ UNCHANGED store

(* ------------------------------------------------------------------ *)
(* GET /cart                                                            *)
(* ------------------------------------------------------------------ *)
GetCart(r) ==
  /\ At(r, "getCart", "start")
  /\ LET q == req[r]
         userId == Or3(q.uid, q.in.qUserId, q.in.bUserId)
     IN Set(r, IF userId = ""
                 THEN Done(q, 400, "userId is required (provide token or userId)")
               ELSE IF ~IsObjectId(userId)
                 THEN Done(q, 500, "CastError")
               ELSE IF userId \notin DOMAIN users
                 THEN Done(q, 404, "User not found")
               ELSE [Done(q, 200, "Cart retrieved successfully")
                       EXCEPT !.res = CartView(users, products, userId)])
  /\ UNCHANGED store

(* ------------------------------------------------------------------ *)
(* GET /:id                                                             *)
(* ------------------------------------------------------------------ *)
GetProduct(r) ==
  /\ At(r, "getProduct", "start")
  /\ LET q == req[r]
     IN Set(r, IF ~IsObjectId(q.param)
                 THEN Done(q, 500, "CastError")
               ELSE IF q.param \notin DOMAIN products
                 THEN Done(q, 404, "Product not found")
               ELSE Done(q, 200, "Product retrieved successfully"))
  /\ UNCHANGED store

(* ------------------------------------------------------------------ *)
(* POST /orders/place                                                   *)
(* ------------------------------------------------------------------ *)
Subtotal(price, quantity) == price * quantity

DecStockByOne(stock, quantity) == stock - 1

DecStock(stock, quantity) == stock - quantity

InsufficientStockOrEqual(stock, quantity) == stock <= quantity

InsufficientStock(stock, quantity) == stock < quantity

NewOrder(q) ==
  [ userId |-> q.uid, items |-> q.processed, totalAmount |-> q.total,
    deliveryAddress |-> q.in.deliveryAddress, paymentMethod |-> q.in.paymentMethod,
    paymentStatus |-> "pending", orderStatus |-> "pending",
    tracking |-> "not_shipped" ]

PlaceOrderStart(r) ==
  /\ At(r, "placeOrder", "start")
  /\ LET q == req[r]
     IN Set(r, IF Len(q.in.items) = 0
                 THEN Done(q, 400, "Items are required")
               ELSE IF q.in.deliveryAddress = "" \/ q.in.paymentMethod = ""
                 THEN Done(q, 400, "Delivery address and payment method are required")
               ELSE [Goto(q, "find") EXCEPT !.i = 1])
  /\ UNCHANGED store

(* Product.findById, then the checks made on the document read *)
PlaceOrderFind(r) ==
  /\ At(r, "placeOrder", "find")
  /\ LET q == req[r]
         item == q.in.items[q.i]
     IN Set(r, IF ~IsObjectId(item.productId)
                 THEN Done(q, 500, "CastError")
               ELSE IF item.productId \notin DOMAIN products
                 THEN Done(q, 404, "Product not found")
               ELSE LET product == products[item.productId]
                        subtotal == Subtotal(product.price, item.quantity)
                    IN IF InsufficientStock(product.stock, item.quantity)
                       THEN Done(q, 400, "Insufficient stock")
                       ELSE [Goto(q, "dec") EXCEPT
                               !.prod = [price |-> product.price, stock |-> product.stock],
                               !.total = @ + subtotal,
                               !.processed = Append(@, [productId |-> item.productId,
                                                        quantity |-> item.quantity,
                                                        price |-> product.price,
                                                        subtotal |-> subtotal])])
  /\ UNCHANGED store

(* Product.findByIdAndUpdate(product._id, { $inc: { stock: -quantity } }) *)
PlaceOrderDec(r) ==
  /\ At(r, "placeOrder", "dec")
  /\ LET q == req[r]
         item == q.in.items[q.i]
     IN /\ products' = [products EXCEPT ![item.productId].stock = DecStock(@, item.quantity)]
        /\ Set(r, IF q.i < Len(q.in.items)
                  THEN [Goto(q, "find") EXCEPT !.i = @ + 1]
                  ELSE Goto(q, "save"))
  /\ UNCHANGED <<users, orders, created>>

(* order.save() *)
PlaceOrderSave(r) ==
  /\ At(r, "placeOrder", "save")
  /\ LET q == req[r]
         order == NewOrder(q)
         oid == OrderIdSeq[created + 1]
     IN IF OrderValid(order)
        THEN /\ orders' = (oid :> order) @@ orders
             /\ created' = created + 1
             /\ Set(r, [Goto(q, "clear") EXCEPT !.oid = oid])
        ELSE /\ Set(r, Done(q, 500, "ValidationError"))
             /\ UNCHANGED <<orders, created>>
  /\ UNCHANGED <<users, products>>

(* User.findByIdAndUpdate(userId, { cart: [] }) *)
PlaceOrderClear(r) ==
  /\ At(r, "placeOrder", "clear")
  /\ users' = IF req[r].uid \in DOMAIN users
              THEN [users EXCEPT ![req[r].uid].cart = <<>>]
              ELSE users
  /\ Set(r, Goto(req[r], "populate"))
  /\ UNCHANGED <<products, orders, created>>

(* order.populate("userId", "name email"), then the 201 *)
PlaceOrderPopulate(r) ==
  /\ At(r, "placeOrder", "populate")
  /\ Set(r, Done(req[r], 201, "Order placed successfully"))
  /\ UNCHANGED store

(* ------------------------------------------------------------------ *)
(* GET /user/orders                                                     *)
(* ------------------------------------------------------------------ *)
(* Order.find({ userId }).sort({ createdAt: -1 }): ids, newest first *)
RECURSIVE OrdersOfFrom(_, _, _)
OrdersOfFrom(os, userId, k) ==
  IF k = 0 THEN <<>>
  ELSE IF OrderIdSeq[k] \in DOMAIN os /\ os[OrderIdSeq[k]].userId = userId
       THEN <<OrderIdSeq[k]>> \o OrdersOfFrom(os, userId, k - 1)
       ELSE OrdersOfFrom(os, userId, k - 1)

OrdersOf(os, userId) == OrdersOfFrom(os, userId, Len(OrderIdSeq))

ListUserOrders(r) ==
  /\ At(r, "listUserOrders", "start")
  /\ Set(r, [Done(req[r], 200, "Orders retrieved successfully")
               EXCEPT !.res = OrdersOf(orders, req[r].uid)])
  /\ UNCHANGED store

(* ------------------------------------------------------------------ *)
(* DELETE /orders/:orderId                                              *)
(* ------------------------------------------------------------------ *)
NotOwner(order, userId, role) == order.userId # userId

NotOwnerNorAdmin(order, userId, role) == order.userId # userId /\ role # "admin"

IsDelivered(order) == order.orderStatus = "delivered"

RestoreStockByOne(stock, quantity) == stock + 1

RestoreStock(stock, quantity) == stock + quantity

(* Order.findById, then the guards on the document read *)
CancelOrderFind(r) ==
  /\ At(r, "cancelOrder", "start")
  /\ LET q == req[r]
     IN Set(r, IF ~IsObjectId(q.param)
                 THEN Done(q, 500, "CastError")
               ELSE IF q.param \notin DOMAIN orders
                 THEN Done(q, 404, "Order not found")
               ELSE LET order == orders[q.param]
                    IN IF NotOwnerNorAdmin(order, q.uid, q.role)
                         THEN Done(q, 403, "Unauthorized to delete this order")
                       ELSE IF IsDelivered(order)
                         THEN Done(q, 400, "Cannot cancel a delivered order")
                       ELSE [Goto(q, IF Len(order.items) = 0 THEN "delete" ELSE "restore")
                               EXCEPT !.i = 1,
                                      !.order = [userId |-> order.userId, items |-> order.items,
                                                 orderStatus |-> order.orderStatus]])
  /\ UNCHANGED store

(* Product.findByIdAndUpdate(item.productId, { $inc: { stock: quantity } }) *)
CancelOrderRestore(r) ==
  /\ At(r, "cancelOrder", "restore")
  /\ LET q == req[r]
         item == q.order.items[q.i]
     IN /\ products' = IF item.productId \in DOMAIN products
                       THEN [products EXCEPT ![item.productId].stock = RestoreStock(@, item.quantity)]
                       ELSE products
        /\ Set(r, IF q.i < Len(q.order.items)
                  THEN [q EXCEPT !.i = @ + 1]
                  ELSE Goto(q, "delete"))
  /\ UNCHANGED <<users, orders, created>>

(* Order.findByIdAndDelete(orderId), then the 200 *)
CancelOrderDelete(r) ==
  /\ At(r, "cancelOrder", "delete")
  /\ LET q == req[r]
     IN /\ orders' = [o \in DOMAIN orders \ {q.param} |-> orders[o]]
        /\ Set(r, [Done(q, 200, "Order cancelled/deleted successfully")
                     EXCEPT !.resNull = q.param \notin DOMAIN orders])
  /\ UNCHANGED <<users, products, created>>

(* ------------------------------------------------------------------ *)
(* POST /delivery-tracking                                              *)
(* ------------------------------------------------------------------ *)
OrderStatusAsGiven(status) == status

OrderStatusFor(status) == IF status = "delivered" THEN "delivered" ELSE "shipped"

UpdateDeliveryTracking(r) ==
  /\ At(r, "updateDeliveryTracking", "start")
  /\ LET q == req[r]
         oid == q.in.orderId
     IN IF oid = "" \/ q.in.status = ""
        THEN Set(r, Done(q, 400, "Order ID and status are required")) /\ UNCHANGED orders
        ELSE IF ~IsObjectId(oid)
        THEN Set(r, Done(q, 500, "CastError")) /\ UNCHANGED orders
        ELSE IF oid \notin DOMAIN orders
        THEN Set(r, Done(q, 404, "Order not found")) /\ UNCHANGED orders
        ELSE /\ orders' = [orders EXCEPT ![oid].tracking = q.in.status,
                                         ![oid].orderStatus = OrderStatusFor(q.in.status)]
             /\ Set(r, Done(q, 200, "Delivery tracking updated successfully"))
  /\ UNCHANGED <<users, products, created>>

(* ------------------------------------------------------------------ *)
(* POST /:productId/reviews                                             *)
(* ------------------------------------------------------------------ *)
RECURSIVE SumRatings(_)
SumRatings(reviews) ==
  IF reviews = <<>> THEN 0 ELSE Head(reviews).rating + SumRatings(Tail(reviews))

(* parseFloat((total / n).toFixed(2)), in hundredths: toFixed rounds to *)
(* the nearest hundredth, a tie going up                                 *)
AverageOf(reviews) == (200 * SumRatings(reviews) + Len(reviews)) \div (2 * Len(reviews))

RatingInvalid(rating) == rating = 0 \/ rating < MinRating \/ rating > MaxRating

(* the validation, then User.findById(userId) *)
PostReviewUser(r) ==
  /\ At(r, "postReview", "start")
  /\ LET q == req[r]
     IN Set(r, IF RatingInvalid(q.in.rating)
                 THEN Done(q, 400, "Rating must be between 1 and 5")
               ELSE IF q.uid \notin DOMAIN users
                 THEN Done(q, 500, "TypeError")
               ELSE Goto(q, "push"))
  /\ UNCHANGED store

(* Product.findByIdAndUpdate(productId, { $push: { reviews } }, { new: true }), *)
(* then the average computed on the document returned                          *)
PostReviewPush(r) ==
  /\ At(r, "postReview", "push")
  /\ LET q == req[r]
     IN IF ~IsObjectId(q.param)
        THEN Set(r, Done(q, 500, "CastError")) /\ UNCHANGED products
        ELSE IF q.param \notin DOMAIN products
        THEN Set(r, Done(q, 404, "Product not found")) /\ UNCHANGED products
        ELSE LET after == Append(products[q.param].reviews,
                                 [userId |-> q.uid, rating |-> q.in.rating])
             IN /\ products' = [products EXCEPT ![q.param].reviews = after]
                /\ Set(r, [Goto(q, "save") EXCEPT
                             !.seen = after,
                             !.avg = products[q.param].averageRating,
                             !.n = products[q.param].totalReviews])
  /\ UNCHANGED <<users, orders, created>>

(* product.save(): the paths that were modified are written *)
PostReviewSave(r) ==
  /\ At(r, "postReview", "save")
  /\ LET q == req[r]
         averageRating == AverageOf(q.seen)
         totalReviews == Len(q.seen)
     IN /\ products' =
             [products EXCEPT
                ![q.param].averageRating = IF averageRating # q.avg THEN averageRating ELSE @,
                ![q.param].totalReviews = IF totalReviews # q.n THEN totalReviews ELSE @]
        /\ Set(r, Done(q, 201, "Review posted successfully"))
  /\ UNCHANGED <<users, orders, created>>

(* ------------------------------------------------------------------ *)
(* POST /signup                                                         *)
(* ------------------------------------------------------------------ *)
UserRole(role) == IF role = "admin" \/ role = "user" THEN role ELSE "user"

(* the validation, then User.findOne({ email }) *)
SignupFind(r) ==
  /\ At(r, "signup", "start")
  /\ LET q == req[r]
     IN Set(r, IF q.in.name = "" \/ q.in.email = "" \/ q.in.password = ""
                 THEN Done(q, 400, "Name, email and password are required")
               ELSE IF \E u \in DOMAIN users : users[u].email = q.in.email
                 THEN Done(q, 400, "User with this email already exists")
               ELSE Goto(q, "save"))
  /\ UNCHANGED store

(* newUser.save(): the insert, under the unique index on email *)
SignupSave(r) ==
  /\ At(r, "signup", "save")
  /\ LET q == req[r]
         id == UserIdSeq[Cardinality(DOMAIN users) + 1]
     IN IF EmailTaken(users, q.in.email)
        THEN Set(r, Done(q, 500, "E11000 duplicate key")) /\ UNCHANGED users
        ELSE /\ users' = (id :> [email |-> q.in.email, role |-> UserRole(q.in.role),
                                 name |-> q.in.name, cart |-> <<>>]) @@ users
             /\ Set(r, [Done(q, 201, "signup successful") EXCEPT !.actor = id])
  /\ UNCHANGED <<products, orders, created>>

(* ------------------------------------------------------------------ *)
(* PUT /profile/update                                                  *)
(* ------------------------------------------------------------------ *)
UpdateProfile(r) ==
  /\ At(r, "updateProfile", "start")
  /\ LET q == req[r]
     IN IF q.uid \notin DOMAIN users
        THEN Set(r, Done(q, 404, "User not found")) /\ UNCHANGED users
        ELSE IF q.in.email # "" /\ \E u \in DOMAIN users : u # q.uid /\ users[u].email = q.in.email
        THEN Set(r, Done(q, 500, "E11000 duplicate key")) /\ UNCHANGED users
        ELSE /\ users' = [users EXCEPT
                            ![q.uid].name = IF q.in.name # "" THEN q.in.name ELSE @,
                            ![q.uid].email = IF q.in.email # "" THEN q.in.email ELSE @]
             /\ Set(r, Done(q, 200, "Profile updated successfully"))
  /\ UNCHANGED <<products, orders, created>>

(* ------------------------------------------------------------------ *)
(* The admin routes.                                                    *)
(* ------------------------------------------------------------------ *)
(* GET /admin/users, /admin/users-stats, /admin/reviews, /orders/payment, *)
(* /delivery-tracking: reads answered 200 with a count                    *)
ReadHandlers == {"listUsers", "userStats", "listAllReviews", "listPayments", "listDeliveryTracking"}

RECURSIVE CountReviews(_, _)
CountReviews(ps, S) ==
  IF S = {} THEN 0
  ELSE LET p == CHOOSE x \in S : TRUE IN Len(ps[p].reviews) + CountReviews(ps, S \ {p})

ReadCount(h) ==
  CASE h = "listUsers" -> Cardinality(DOMAIN users)
    [] h = "userStats" -> Cardinality({u \in DOMAIN users : Len(users[u].cart) > 0})
    [] h = "listAllReviews" -> CountReviews(products, DOMAIN products)
    [] OTHER -> Cardinality(DOMAIN orders)

AdminRead(r) ==
  /\ req[r].h \in ReadHandlers /\ req[r].pc = "start"
  /\ Set(r, [Done(req[r], 200, "retrieved") EXCEPT !.n = ReadCount(req[r].h)])
  /\ UNCHANGED store

(* GET /admin/users/:userId *)
GetUser(r) ==
  /\ At(r, "getUser", "start")
  /\ LET q == req[r]
     IN Set(r, IF ~IsObjectId(q.param) THEN Done(q, 500, "CastError")
               ELSE IF q.param \notin DOMAIN users THEN Done(q, 404, "User not found")
               ELSE [Done(q, 200, "User retrieved successfully")
                       EXCEPT !.res = CartView(users, products, q.param)])
  /\ UNCHANGED store

(* POST /add *)
AddProduct(r) ==
  /\ At(r, "addProduct", "start")
  /\ LET q == req[r]
         id == ProductIdSeq[Cardinality(DOMAIN products) + 1]
     IN IF q.in.name = "" \/ q.in.price = 0
        THEN Set(r, Done(q, 400, "Name and price are required")) /\ UNCHANGED products
        ELSE /\ products' = (id :> [price |-> q.in.price,
                                    stock |-> IF q.in.stock < 0 THEN 0 ELSE q.in.stock,
                                    reviews |-> <<>>, averageRating |-> 0,
                                    totalReviews |-> 0, assignedAdmin |-> ""]) @@ products
             /\ Set(r, Done(q, 201, "Product added successfully"))
  /\ UNCHANGED <<users, orders, created>>

(* POST /assign *)
AssignAdmin(r) ==
  /\ At(r, "assignAdmin", "start")
  /\ LET q == req[r]
     IN IF q.in.productId = "" \/ q.in.adminId = ""
        THEN Set(r, Done(q, 400, "Product ID and Admin ID are required")) /\ UNCHANGED products
        ELSE IF ~IsObjectId(q.in.productId) \/ ~IsObjectId(q.in.adminId)
        THEN Set(r, Done(q, 500, "CastError")) /\ UNCHANGED products
        ELSE IF q.in.productId \notin DOMAIN products
        THEN Set(r, Done(q, 404, "Product not found")) /\ UNCHANGED products
        ELSE /\ products' = [products EXCEPT ![q.in.productId].assignedAdmin = q.in.adminId]
             /\ Set(r, Done(q, 200, "Product assigned successfully"))
  /\ UNCHANGED <<users, orders, created>>

(* PUT /update/:id: the fields present in the body are set *)
UpdateProduct(r) ==
  /\ At(r, "updateProduct", "start")
  /\ LET q == req[r]
     IN IF ~IsObjectId(q.param)
        THEN Set(r, Done(q, 500, "CastError")) /\ UNCHANGED products
        ELSE IF q.param \notin DOMAIN products
        THEN Set(r, Done(q, 404, "Product not found")) /\ UNCHANGED products
        ELSE /\ products' = [products EXCEPT
                               ![q.param].price = IF q.in.price # 0 THEN q.in.price ELSE @,
                               ![q.param].stock = IF q.in.stock >= 0 THEN q.in.stock ELSE @]
             /\ Set(r, Done(q, 200, "Product updated successfully"))
  /\ UNCHANGED <<users, orders, created>>

(* ------------------------------------------------------------------ *)
(* Initial stores.                                                      *)
(* ------------------------------------------------------------------ *)
User(email, role) == [email |-> email, role |-> role, name |-> "n", cart |-> <<>>]
Product(price, stock) ==
  [ price |-> price, stock |-> stock, reviews |-> <<>>, averageRating |-> 0,
    totalReviews |-> 0, assignedAdmin |-> "" ]

Users0 == ("u1" :> User("e1", "user")) @@ ("u2" :> User("e2", "user")) @@ ("a1" :> User("e3", "admin"))
Products0 == ("p1" :> Product(10, 5)) @@ ("p2" :> Product(7, 1))
Orders0 == [o \in {} |-> NoOrder]

Init ==
  /\ users = Users0
  /\ products = Products0
  /\ orders = Orders0
  /\ created = 0
  /\ req = [r \in Slots |-> Idle]

(* ------------------------------------------------------------------ *)
(* The cart service under concurrent requests.                          *)
(* ------------------------------------------------------------------ *)
CartUserIds == {"", "u1", "u2", AbsentId}
CartProductIds == {"p1", "p2", AbsentId}
CartQuantities == {0, 1, 2}

(* Room for one more line-item, counting the adds in flight. *)
SumLen(f) ==
  LET RECURSIVE Sum(_)
      Sum(S) == IF S = {} THEN 0
                ELSE LET u == CHOOSE x \in S : TRUE IN Len(f[u].cart) + Sum(S \ {u})
  IN Sum(DOMAIN f)

CartRoom ==
  SumLen(users) + Cardinality({r \in Slots : req[r].h = "addToCart" /\ req[r].pc # "done"}) < MaxCart

(* Requests are handled one at a time in the specifications that say so. *)
OneAtATime(r) == r = "r1" /\ \A s \in Slots : req[s].h = "idle"

CartReceive(r) ==
  \/ \E u \in CartUserIds, p \in CartProductIds, n \in CartQuantities :
       /\ CartRoom
       /\ Receive(r, "POST", <<"cart", "add">>, NoToken,
                  [NoInput EXCEPT !.bUserId = u, !.productId = p, !.quantity = n])
  \/ \E u \in CartUserIds, p \in CartProductIds :
       Receive(r, "DELETE", <<"cart", "delete", p>>, NoToken, [NoInput EXCEPT !.qUserId = u])
  \/ \E u \in CartUserIds :
       Receive(r, "GET", <<"cart">>, NoToken, [NoInput EXCEPT !.qUserId = u])

CartNext ==
  \E r \in Slots :
    \/ OneAtATime(r) /\ CartReceive(r)
    \/ AddToCartFind(r)
    \/ AddToCartPush(r)
    \/ AddToCartRead(r)
    \/ RemoveFromCartPull(r)
    \/ RemoveFromCartRead(r)
    \/ GetProduct(r)
    \/ Respond(r)

SpecCart == Init /\ [][CartNext]_vars

(* ------------------------------------------------------------------ *)
(* The order service: placement, listing, cancellation and delivery     *)
(* tracking, with two requests in flight.                               *)
(* ------------------------------------------------------------------ *)
Tok(id, role) == [kind |-> "valid", id |-> id, role |-> role]
It(p, n) == [productId |-> p, quantity |-> n]

OrderItemLists ==
  { <<>>, <<It("p1", 2)>>, <<It("p2", 1)>>, <<It("p2", 2)>>,
    <<It("p1", 2), It("p2", 1)>>, <<It("p1", 1), It("p2", 2)>>,
    <<It("p1", 1), It("p1", 6)>>, <<It(AbsentId, 1)>>, <<It("p1", 0)>> }

PlaceBodies ==
  { [NoInput EXCEPT !.items = l, !.deliveryAddress = "addr", !.paymentMethod = "upi"] :
      l \in OrderItemLists }
  \cup { [NoInput EXCEPT !.items = <<It("p1", 2)>>, !.deliveryAddress = a, !.paymentMethod = m] :
           a \in {"", "addr"}, m \in {"", "cash", "wallet"} }

OrderTokens == {Tok("u1", "user"), Tok("u2", "user"), Tok("a1", "admin")}
TrackingInputs == {"", "in_transit", "delivered", "Delivered"}

(* orders constructed, counting the placements in flight that may still save *)
OrderRoom ==
  created + Cardinality({r \in Slots : req[r].h = "placeOrder" /\ req[r].pc \notin {"done", "clear", "populate"}})
    < MaxOrders

OrderIdsInUse == {OrderIdSeq[k] : k \in 1..created} \cup {AbsentId}

OrderReceive(r) ==
  \/ \E b \in PlaceBodies :
       OrderRoom /\ Receive(r, "POST", <<"orders", "place">>, Tok("u1", "user"), b)
  \/ \E t \in OrderTokens, o \in OrderIdsInUse :
       Receive(r, "DELETE", <<"orders", o>>, t, NoInput)
  \/ Receive(r, "GET", <<"user", "orders">>, Tok("u1", "user"), NoInput)
  \/ \E o \in OrderIdsInUse, st \in TrackingInputs :
       Receive(r, "POST", <<"delivery-tracking">>, Tok("a1", "admin"),
               [NoInput EXCEPT !.orderId = o, !.status = st])

OrderStep(r) ==
  \/ PlaceOrderStart(r)
  \/ PlaceOrderFind(r)
  \/ PlaceOrderDec(r)
  \/ PlaceOrderSave(r)
  \/ PlaceOrderClear(r)
  \/ PlaceOrderPopulate(r)
  \/ ListUserOrders(r)
  \/ CancelOrderFind(r)
  \/ CancelOrderRestore(r)
  \/ CancelOrderDelete(r)
  \/ UpdateDeliveryTracking(r)
  \/ Respond(r)

InitOrder ==
  /\ users = [Users0 EXCEPT !["u1"].cart = <<It("p1", 1), It("p2", 1)>>]
  /\ products = Products0
  /\ orders = Orders0
  /\ created = 0
  /\ req = [r \in Slots |-> Idle]

Next == \E r \in Slots : (OneAtATime(r) /\ OrderReceive(r)) \/ OrderStep(r)

Spec == InitOrder /\ [][Next]_vars

(* ------------------------------------------------------------------ *)
(* The cart routes called with and without a bearer token, one request  *)
(* at a time.                                                           *)
(* ------------------------------------------------------------------ *)
IdentityTokens == {NoToken, Tok("u1", "user")}
IdentityUserIds == {"", "u2"}
IdentityProductIds == {"p1", "p2"}

IdentityReceive(r) ==
  \/ \E t \in IdentityTokens, u \in IdentityUserIds, p \in IdentityProductIds :
       /\ CartRoom
       /\ Receive(r, "POST", <<"cart", "add">>, t,
                  [NoInput EXCEPT !.bUserId = u, !.productId = p, !.quantity = 1])
  \/ \E t \in IdentityTokens, u \in IdentityUserIds, p \in IdentityProductIds :
       Receive(r, "DELETE", <<"cart", "delete", p>>, t, [NoInput EXCEPT !.qUserId = u])
  \/ \E t \in IdentityTokens, u \in IdentityUserIds :
       Receive(r, "GET", <<"cart">>, t, [NoInput EXCEPT !.qUserId = u])

IdentityNext ==
  \E r \in Slots :
    \/ OneAtATime(r) /\ IdentityReceive(r)
    \/ AddToCartFind(r)
    \/ AddToCartPush(r)
    \/ AddToCartRead(r)
    \/ RemoveFromCartPull(r)
    \/ RemoveFromCartRead(r)
    \/ GetProduct(r)
    \/ Respond(r)

SpecIdentity == Init /\ [][IdentityNext]_vars

(* ------------------------------------------------------------------ *)
(* Placement and cancellation with two requests in flight at once.      *)
(* ------------------------------------------------------------------ *)
RaceItemLists == { <<It("p2", 1)>>, <<It("p1", 3), It("p2", 1)>> }

RaceBodies ==
  { [NoInput EXCEPT !.items = l, !.deliveryAddress = "addr", !.paymentMethod = "upi"] :
      l \in RaceItemLists }

RaceReceive(r) ==
  \/ \E b \in RaceBodies :
       OrderRoom /\ Receive(r, "POST", <<"orders", "place">>, Tok("u1", "user"), b)
  \/ \E o \in {OrderIdSeq[k] : k \in 1..created} :
       Receive(r, "DELETE", <<"orders", o>>, Tok("u1", "user"), NoInput)

RaceNext ==
  \E r \in Slots :
    \/ RaceReceive(r)
    \/ PlaceOrderStart(r)
    \/ PlaceOrderFind(r)
    \/ PlaceOrderDec(r)
    \/ PlaceOrderSave(r)
    \/ PlaceOrderClear(r)
    \/ PlaceOrderPopulate(r)
    \/ CancelOrderFind(r)
    \/ CancelOrderRestore(r)
    \/ CancelOrderDelete(r)
    \/ Respond(r)

SpecRace == Init /\ [][RaceNext]_vars

(* ------------------------------------------------------------------ *)
(* Placement and cancellation one request at a time, every placement    *)
(* naming existing products in quantities the stock covers, with an     *)
(* address and a payment method.                                        *)
(* ------------------------------------------------------------------ *)
ConserveItemLists == { <<It("p1", 2)>>, <<It("p2", 1)>>, <<It("p1", 1), It("p2", 1)>> }
ConservePaymentMethods == {"upi", "wallet", "cash"}

Covered(l) ==
  \A k \in 1..Len(l) :
    /\ l[k].productId \in DOMAIN products
    /\ l[k].quantity >= 1
    /\ l[k].quantity <= products[l[k].productId].stock

ConserveReceive(r) ==
  \/ \E l \in ConserveItemLists, m \in ConservePaymentMethods :
       /\ OrderRoom
       /\ Covered(l)
       /\ Receive(r, "POST", <<"orders", "place">>, Tok("u1", "user"),
                  [NoInput EXCEPT !.items = l, !.deliveryAddress = "addr", !.paymentMethod = m])
  \/ \E t \in OrderTokens, o \in OrderIdsInUse :
       Receive(r, "DELETE", <<"orders", o>>, t, NoInput)

ConserveNext ==
  \E r \in Slots :
    \/ OneAtATime(r) /\ ConserveReceive(r)
    \/ PlaceOrderStart(r)
    \/ PlaceOrderFind(r)
    \/ PlaceOrderDec(r)
    \/ PlaceOrderSave(r)
    \/ PlaceOrderClear(r)
    \/ PlaceOrderPopulate(r)
    \/ CancelOrderFind(r)
    \/ CancelOrderRestore(r)
    \/ CancelOrderDelete(r)
    \/ Respond(r)

SpecConserve == InitOrder /\ [][ConserveNext]_vars

(* ------------------------------------------------------------------ *)
(* Reviews, with two requests in flight.                                *)
(* ------------------------------------------------------------------ *)
ReviewRatings == {0, 1, 2, 5}
ReviewProducts == {"p1", AbsentId}

ReviewRoom ==
  CountReviews(products, DOMAIN products)
    + Cardinality({r \in Slots : req[r].h = "postReview" /\ req[r].pc \in {"start", "push"}})
    < MaxReviews

ReviewReceive(r) ==
  \E u \in {"u1", "u2"}, p \in ReviewProducts, n \in ReviewRatings :
    /\ ReviewRoom
    /\ Receive(r, "POST", <<p, "reviews">>, Tok(u, "user"), [NoInput EXCEPT !.rating = n])

ReviewNext ==
  \E r \in Slots :
    \/ ReviewReceive(r)
    \/ PostReviewUser(r)
    \/ PostReviewPush(r)
    \/ PostReviewSave(r)
    \/ Respond(r)

SpecReview == Init /\ [][ReviewNext]_vars

(* ------------------------------------------------------------------ *)
(* Accounts, with two requests in flight.                               *)
(* ------------------------------------------------------------------ *)
SignupEmails == {"e1", "e8", "e9"}

SignupRoom ==
  Cardinality(DOMAIN users) - Cardinality(DOMAIN Users0)
    + Cardinality({r \in Slots : req[r].h = "signup" /\ req[r].pc # "done"})
    < MaxSignups

SignupReceive(r) ==
  \/ \E e \in SignupEmails, n \in {"", "n"}, ro \in {"", "admin"} :
       /\ SignupRoom
       /\ Receive(r, "POST", <<"signup">>, NoToken,
                  [NoInput EXCEPT !.email = e, !.name = n, !.password = "pw", !.role = ro])
  \/ \E e \in {"e1", "e8"} :
       Receive(r, "PUT", <<"profile", "update">>, Tok("u2", "user"), [NoInput EXCEPT !.email = e])

SignupNext ==
  \E r \in Slots :
    \/ SignupReceive(r)
    \/ SignupFind(r)
    \/ SignupSave(r)
    \/ UpdateProfile(r)
    \/ Respond(r)

SpecSignup == Init /\ [][SignupNext]_vars

(* ------------------------------------------------------------------ *)
(* Every gated endpoint, called with every kind of token, one request   *)
(* at a time.                                                           *)
(* ------------------------------------------------------------------ *)
GateTokens ==
  { NoToken, [kind |-> "invalid", id |-> "u1", role |-> "admin"],
    [kind |-> "expired", id |-> "a1", role |-> "admin"],
    Tok("u1", "user"), Tok("a1", "admin") }

Call(m, path, body) == [method |-> m, path |-> path, body |-> body]

AdminCalls ==
  { Call("GET", <<"admin", "users">>, NoInput),
    Call("GET", <<"admin", "users", "u1">>, NoInput),
    Call("GET", <<"admin", "users-stats">>, NoInput),
    Call("POST", <<"add">>, [NoInput EXCEPT !.name = "n", !.price = 3, !.stock = 1]),
    Call("POST", <<"assign">>, [NoInput EXCEPT !.productId = "p1", !.adminId = "a1"]),
    Call("PUT", <<"update", "p2">>, [NoInput EXCEPT !.price = 8, !.stock = 2]),
    Call("GET", <<"admin", "reviews">>, NoInput),
    Call("GET", <<"orders", "payment">>, NoInput),
    Call("GET", <<"delivery-tracking">>, NoInput),
    Call("POST", <<"delivery-tracking">>, [NoInput EXCEPT !.orderId = "o1", !.status = "delivered"]) }

UserCalls ==
  { Call("POST", <<"orders", "place">>,
         [NoInput EXCEPT !.items = <<It("p1", 2)>>, !.deliveryAddress = "addr",
                         !.paymentMethod = "upi"]),
    Call("GET", <<"user", "orders">>, NoInput),
    Call("DELETE", <<"orders", "o1">>, NoInput),
    Call("PUT", <<"profile", "update">>, [NoInput EXCEPT !.name = "m"]),
    Call("POST", <<"p1", "reviews">>, [NoInput EXCEPT !.rating = 5]) }

(* the documents created so far: orders, products and reviews *)
Creates == created + Cardinality(DOMAIN products \ DOMAIN Products0) + CountReviews(products, DOMAIN products)

GateRoom(c) ==
  c.path \in {<<"orders", "place">>, <<"add">>, <<"p1", "reviews">>} => Creates < MaxCreates

GateReceive(r) ==
  \E c \in AdminCalls \cup UserCalls, t \in GateTokens :
    GateRoom(c) /\ Receive(r, c.method, c.path, t, c.body)

GateNext ==
  \E r \in Slots :
    \/ OneAtATime(r) /\ GateReceive(r)
    \/ AdminRead(r)
    \/ GetUser(r)
    \/ AddProduct(r)
    \/ AssignAdmin(r)
    \/ UpdateProduct(r)
    \/ UpdateProfile(r)
    \/ PostReviewUser(r)
    \/ PostReviewPush(r)
    \/ PostReviewSave(r)
    \/ OrderStep(r)

SpecGate == InitOrder /\ [][GateNext]_vars

(* ================================================================== *)
(* Properties.                                                          *)
(* ================================================================== *)
RECURSIVE SumSubtotals(_)
SumSubtotals(items) ==
  IF items = <<>> THEN 0 ELSE Head(items).subtotal + SumSubtotals(Tail(items))

Placing(r) == req[r].h = "placeOrder" /\ req[r].reached
PlaceEnded(r) == Placing(r) /\ req[r].pc = "done"

(* every item of the request passed its product lookup and its stock check *)
ItemsPassed(r) ==
  /\ Len(req[r].in.items) > 0
  /\ req[r].in.deliveryAddress # "" /\ req[r].in.paymentMethod # ""
  /\ req[r].msg \notin {"Product not found", "Insufficient stock", "CastError"}

(* C1 as stated: a placeOrder request with a non-empty item list, a      *)
(* deliveryAddress and a paymentMethod whose items all exist with enough *)
(* stock when checked succeeds.                                          *)
C1_AnyPaymentMethodSucceeds ==
  \A r \in Slots : (PlaceEnded(r) /\ ItemsPassed(r)) => req[r].status = 201

(* C1, amended: ... and a paymentMethod that is one of the five of the   *)
(* order schema, and every quantity at least 1: the request is answered  *)
(* 201; each item's decrement lowers its product's stock by exactly the  *)
(* ordered quantity and touches nothing else; the Order stored has       *)
(* orderStatus = paymentStatus = pending, one item per requested item    *)
(* with subtotal = price * quantity at the product's price, and          *)
(* totalAmount the sum of the subtotals; and the placing user's cart is  *)
(* set to empty.                                                         *)
SchemaInput(r) ==
  /\ req[r].in.paymentMethod \in PaymentMethods
  /\ \A k \in 1..Len(req[r].in.items) : req[r].in.items[k].quantity >= 1

C1_Succeeds ==
  \A r \in Slots : (PlaceEnded(r) /\ ItemsPassed(r) /\ SchemaInput(r)) => req[r].status = 201

C1_DecStep ==
  \A r \in Slots :
    (Placing(r) /\ req[r].pc = "dec" /\ req'[r] # req[r]) =>
      LET item == req[r].in.items[req[r].i]
      IN /\ products'[item.productId].stock = products[item.productId].stock - item.quantity
         /\ \A p \in DOMAIN products : p # item.productId => products'[p] = products[p]
         /\ products'[item.productId].price = products[item.productId].price

C1_SaveStep ==
  \A r \in Slots :
    (Placing(r) /\ req[r].pc = "save" /\ req'[r].pc = "clear") =>
      LET oid == req'[r].oid
          o == orders'[oid]
          its == req[r].in.items
      IN /\ oid \notin DOMAIN orders /\ DOMAIN orders' = DOMAIN orders \cup {oid}
         /\ \A x \in DOMAIN orders : orders'[x] = orders[x]
         /\ o.orderStatus = "pending" /\ o.paymentStatus = "pending"
         /\ o.userId = req[r].uid
         /\ Len(o.items) = Len(its)
         /\ \A k \in 1..Len(its) :
              /\ o.items[k].productId = its[k].productId
              /\ o.items[k].quantity = its[k].quantity
              /\ o.items[k].price = products[its[k].productId].price
              /\ o.items[k].subtotal = o.items[k].price * its[k].quantity
         /\ o.totalAmount = SumSubtotals(o.items)

C1_ClearStep ==
  \A r \in Slots :
    (Placing(r) /\ req[r].pc = "clear" /\ req'[r] # req[r]) => users'[req[r].uid].cart = <<>>

C1_Ended ==
  \A r \in Slots :
    (PlaceEnded(r) /\ req[r].status = 201) =>
      /\ req[r].oid \in DOMAIN orders
      /\ users[req[r].uid].cart = <<>>

C1_PlaceOrder ==
  /\ []C1_Succeeds
  /\ []C1_Ended
  /\ [][C1_DecStep /\ C1_SaveStep /\ C1_ClearStep]_vars

(* the example of the claim: stock 5, price 10, quantity 2 *)
C1_Witness ==
  \E r \in Slots :
    /\ PlaceEnded(r) /\ req[r].status = 201
    /\ req[r].in.items = <<It("p1", 2)>>
    /\ products["p1"].stock = 3
    /\ orders[req[r].oid].totalAmount = 20
    /\ orders[req[r].oid].items[1].subtotal = 20
    /\ users[req[r].uid].cart = <<>>

(* C2 as stated: a placeOrder request with an item whose quantity        *)
(* exceeds the stock fails with 400, leaves that item's product stock    *)
(* unchanged (the request has decremented nothing of that product),      *)
(* creates no Order and does not clear the cart.                         *)
FailedOnStock(r) == PlaceEnded(r) /\ req[r].msg = "Insufficient stock"
FailedItem(r) == req[r].in.items[req[r].i]

C2_StockOfFailedItemUntouched ==
  \A r \in Slots :
    FailedOnStock(r) =>
      /\ req[r].status = 400
      /\ req[r].oid = ""
      /\ \A k \in 1..Len(req[r].processed) :
           req[r].processed[k].productId # FailedItem(r).productId

(* What the code does guarantee of such a request (C2 less the stock of *)
(* earlier items): it is answered 400; the failing item decrements       *)
(* nothing, its product keeping the stock it had at the check; no Order  *)
(* is created and the cart is not cleared.                               *)
C2_Ended ==
  \A r \in Slots :
    FailedOnStock(r) =>
      /\ req[r].status = 400
      /\ req[r].oid = ""
      /\ products[FailedItem(r).productId].stock < FailedItem(r).quantity

C2_FailingStep ==
  \A r \in Slots :
    (Placing(r) /\ req[r].pc = "find" /\ req'[r].msg = "Insufficient stock") => store' = store

C2_BeforeSave ==
  \A r \in Slots :
    (Placing(r) /\ req[r].pc \in {"start", "find", "dec"} /\ req'[r] # req[r]) =>
      /\ orders' = orders /\ created' = created /\ users' = users

C2_InsufficientStockRejected ==
  /\ []C2_Ended
  /\ [][C2_FailingStep /\ C2_BeforeSave]_vars

C2_Witness ==
  \E r \in Slots :
    /\ FailedOnStock(r) /\ req[r].status = 400
    /\ req[r].in.items = <<It("p1", 1), It("p1", 6)>>
    /\ products["p1"].stock = 4
    /\ users[req[r].uid].cart # <<>>
    /\ DOMAIN orders = {}

(* C3: cancelOrder by the owner or by an admin on an order that is not  *)
(* delivered is answered 200; each of its restore steps raises the stock *)
(* of one item's product by that item's quantity, every item being       *)
(* restored before the delete; the delete removes the order; a removed   *)
(* order id never comes back, and listUserOrders answers only with       *)
(* orders that are stored.                                               *)
Cancelling(r) == req[r].h = "cancelOrder" /\ req[r].reached
MayCancel(o, r) == (o.userId = req[r].uid \/ req[r].role = "admin") /\ o.orderStatus # "delivered"

C3_FindStep ==
  \A r \in Slots :
    (Cancelling(r) /\ req[r].pc = "start" /\ req'[r] # req[r]
       /\ req[r].param \in DOMAIN orders /\ MayCancel(orders[req[r].param], r))
    => /\ req'[r].pc = "restore"
       /\ req'[r].order.items = orders[req[r].param].items
       /\ req'[r].i = 1

C3_RestoreStep ==
  \A r \in Slots :
    (Cancelling(r) /\ req[r].pc = "restore" /\ req'[r] # req[r]) =>
      LET item == req[r].order.items[req[r].i]
      IN /\ products'[item.productId].stock = products[item.productId].stock + item.quantity
         /\ \A p \in DOMAIN products : p # item.productId => products'[p] = products[p]
         /\ IF req[r].i = Len(req[r].order.items)
            THEN req'[r].pc = "delete"
            ELSE req'[r].pc = "restore" /\ req'[r].i = req[r].i + 1

C3_DeleteStep ==
  \A r \in Slots :
    (Cancelling(r) /\ req[r].pc = "delete" /\ req'[r] # req[r]) =>
      /\ req[r].param \notin DOMAIN orders'
      /\ req'[r].status = 200

C3_NeverBack ==
  \A k \in 1..created : OrderIdSeq[k] \notin DOMAIN orders => OrderIdSeq[k] \notin DOMAIN orders'

C3_Listing ==
  \A r \in Slots :
    /\ (req[r].h = "listUserOrders" /\ req[r].pc = "done" /\ req[r].reached) =>
         /\ \A k \in 1..Len(req[r].res) :
              req[r].res[k] \in DOMAIN orders /\ orders[req[r].res[k]].userId = req[r].uid
         /\ \A o \in DOMAIN orders :
              orders[o].userId = req[r].uid => \E k \in 1..Len(req[r].res) : req[r].res[k] = o
    /\ (Cancelling(r) /\ req[r].pc = "done" /\ req[r].status = 200) =>
         req[r].param \notin DOMAIN orders

C3_CancelOrderRestores ==
  /\ []C3_Listing
  /\ [][C3_FindStep /\ C3_RestoreStep /\ C3_DeleteStep /\ C3_NeverBack]_vars

(* an admin has cancelled another user's two-item order: the stock is back *)
C3_Witness ==
  \E r \in Slots :
    /\ Cancelling(r) /\ req[r].pc = "done" /\ req[r].status = 200
    /\ req[r].role = "admin" /\ req[r].order.userId # req[r].uid
    /\ Len(req[r].order.items) = 2
    /\ products["p1"].stock = 5 /\ products["p2"].stock = 1
    /\ req[r].param \notin DOMAIN orders

(* C4: cancelOrder fails with 404 when the order does not exist, else    *)
(* with 403 when the requester neither owns it nor is admin, else with   *)
(* 400 when it is delivered; a failing request changes no stock and      *)
(* deletes nothing.                                                      *)
C4_Guards ==
  \A r \in Slots :
    (Cancelling(r) /\ req[r].pc = "start" /\ req'[r] # req[r] /\ IsObjectId(req[r].param)) =>
      LET found == req[r].param \in DOMAIN orders
          o == orders[req[r].param]
          expected ==
            IF ~found THEN 404
            ELSE IF o.userId # req[r].uid /\ req[r].role # "admin" THEN 403
            ELSE IF o.orderStatus = "delivered" THEN 400
            ELSE 0
      IN /\ req'[r].status = expected
         /\ expected # 0 => req'[r].pc = "done" /\ store' = store

C4_Failed ==
  \A r \in Slots :
    (Cancelling(r) /\ req[r].pc = "done") =>
      /\ req[r].status \in {403, 400} => req[r].param \in DOMAIN orders
      /\ req[r].status \in {404, 403, 400, 500} => req[r].order = NoOrder

C4_CancelOrderGuards == []C4_Failed /\ [][C4_Guards]_vars

(* a stranger is refused on a delivered order: 403 comes before 400 *)
C4_Witness ==
  \E r \in Slots :
    /\ Cancelling(r) /\ req[r].pc = "done" /\ req[r].status = 403
    /\ req[r].param \in DOMAIN orders
    /\ orders[req[r].param].orderStatus = "delivered"

(* C5: whenever no postReview request is in progress on a product, its   *)
(* totalReviews is the number of its reviews and its averageRating is    *)
(* the mean of their ratings rounded to 2 decimals.                      *)
ReviewInProgress(p) ==
  \E r \in Slots : req[r].h = "postReview" /\ req[r].param = p /\ req[r].pc \notin {"done", "idle"}

(* 100 * mean, rounded to the nearest integer (ties up) *)
Mean2(reviews) ==
  IF reviews = <<>> THEN 0
  ELSE LET sum == SumRatings(reviews)
           n == Len(reviews)
           floor == (100 * sum) \div n
       IN IF 2 * ((100 * sum) % n) >= n THEN floor + 1 ELSE floor

C5_RatingAggregates ==
  \A p \in DOMAIN products :
    ~ReviewInProgress(p) =>
      /\ products[p].totalReviews = Len(products[p].reviews)
      /\ products[p].averageRating = Mean2(products[p].reviews)

(* C6: a signup with an email that a user already has fails with 400    *)
(* and creates no user, also when it overlaps with the signup that took  *)
(* the email; no two users ever have the same email.                     *)
EmailUnique == \A u, v \in DOMAIN users : users[u].email = users[v].email => u = v

C6_DuplicateSignupConflict ==
  /\ EmailUnique
  /\ \A r \in Slots :
       (req[r].h = "signup" /\ req[r].pc = "done" /\ req[r].in.name # "" /\ req[r].status # 201)
       => req[r].status = 400 /\ req[r].msg = "User with this email already exists"

(* C7: a request to an admin-only endpoint with a missing, invalid or   *)
(* expired token is answered 401, and with a valid token of another role *)
(* 403; a request without token to an auth-required endpoint is answered *)
(* 401; a rejected request never enters its handler, and the store       *)
(* changes only in steps of requests that passed their gates.            *)
AdminEndpoint(m, path) ==
  \/ m = "GET" /\ path \in { <<"admin", "users">>, <<"admin", "users-stats">>,
                             <<"admin", "reviews">>, <<"orders", "payment">>,
                             <<"delivery-tracking">> }
  \/ m = "GET" /\ Len(path) = 3 /\ path[1] = "admin" /\ path[2] = "users"
  \/ m = "POST" /\ path \in {<<"add">>, <<"assign">>, <<"delivery-tracking">>}
  \/ m = "PUT" /\ Len(path) = 2 /\ path[1] = "update"

AuthEndpoint(m, path) ==
  \/ m = "POST" /\ path = <<"orders", "place">>
  \/ m = "GET" /\ path = <<"user", "orders">>
  \/ m = "DELETE" /\ Len(path) = 2 /\ path[1] = "orders"
  \/ m = "PUT" /\ path = <<"profile", "update">>
  \/ m = "POST" /\ Len(path) = 2 /\ path[2] = "reviews"

Entitled(q) ==
  /\ AdminEndpoint(q.method, q.path) => q.tok.kind = "valid" /\ q.tok.role = "admin"
  /\ AuthEndpoint(q.method, q.path) => q.tok.kind = "valid"

C7_Rejected ==
  \A r \in Slots :
    req[r].h # "idle" =>
      LET q == req[r]
      IN /\ (AdminEndpoint(q.method, q.path) /\ q.tok.kind # "valid")
              => q.status = 401 /\ ~q.reached /\ q.pc = "done"
         /\ (AdminEndpoint(q.method, q.path) /\ q.tok.kind = "valid" /\ q.tok.role # "admin")
              => q.status = 403 /\ ~q.reached /\ q.pc = "done"
         /\ (AuthEndpoint(q.method, q.path) /\ q.tok.kind # "valid")
              => q.status = 401 /\ ~q.reached /\ q.pc = "done"

C7_StoreGuarded ==
  store' # store =>
    \E r \in Slots : req[r].reached /\ req[r].pc # "done" /\ req'[r] # req[r] /\ Entitled(req[r])

C7_GatesReject == []C7_Rejected /\ [][C7_StoreGuarded]_vars

(* a user's token on PUT /update/p2 is refused and p2 keeps its price *)
C7_Witness ==
  \E r \in Slots :
    /\ req[r].method = "PUT" /\ req[r].path = <<"update", "p2">>
    /\ req[r].tok = Tok("u1", "user")
    /\ req[r].pc = "done" /\ req[r].status = 403 /\ ~req[r].reached
    /\ products["p2"].price = 7

ExplicitUser(q) == Or3(q.uid, q.in.bUserId, q.in.qUserId)

(* C8: addToCart for an existing user and an existing product appends    *)
(* exactly one line-item to the end of that user's cart, so that a       *)
(* following getCart shows it: a GET /cart request naming a user with a  *)
(* non-empty cart is answered 200 with as many line-items as the cart    *)
(* holds, the last one being the line-item added last.                   *)
C8_AddThenGetCart ==
  \A r \in Slots :
    ( /\ req[r].pc = "done" /\ req[r].method = "GET" /\ req[r].path = <<"cart">>
      /\ req[r].in.qUserId \in DOMAIN users
      /\ users[req[r].in.qUserId].cart # <<>> )
    => LET cart == users[req[r].in.qUserId].cart
       IN /\ req[r].status = 200
          /\ Len(req[r].res) = Len(cart)
          /\ req[r].res[Len(cart)].productId = cart[Len(cart)].productId
          /\ req[r].res[Len(cart)].quantity = cart[Len(cart)].quantity

(* The part of C8 that is about the stored cart: the push appends the    *)
(* line-item {productId, quantity} at the end and changes nothing else   *)
(* (no other line-item, no other user, no product); quantities are never *)
(* merged; and the request is answered 200 whatever the product's stock. *)
C8_PushStep(r) == At(r, "addToCart", "push") /\ req'[r].pc # "push" /\ req[r].actor \in DOMAIN users

C8_Appends ==
  \A r \in Slots :
    C8_PushStep(r) =>
      LET u == req[r].actor
          item == [productId |-> req[r].in.productId, quantity |-> req[r].in.quantity]
          view == CartView(users', products', u)
      IN /\ users'[u].cart = users[u].cart \o <<item>>
         /\ \A v \in DOMAIN users : v # u => users'[v] = users[v]
         /\ DOMAIN users' = DOMAIN users
         /\ products' = products
         /\ Len(view) = Len(users[u].cart) + 1
         /\ view[Len(view)].productId = item.productId
         /\ view[Len(view)].quantity = item.quantity

C8_Answered ==
  \A r \in Slots :
    ( /\ req[r].h = "addToCart" /\ req[r].pc = "done"
      /\ req[r].in.productId \in DOMAIN products
      /\ req[r].in.quantity > 0
      /\ ExplicitUser(req[r]) \in DOMAIN users )
    => req[r].status = 200

C8_AddToCartAppends == [][C8_Appends]_vars /\ []C8_Answered

C8_Witness ==
  \E r \in Slots :
    /\ req[r].h = "addToCart" /\ req[r].pc = "done" /\ req[r].status = 200
    /\ Len(req[r].res) = 2
    /\ req[r].res[1].productId = req[r].res[2].productId
    /\ req[r].in.quantity > products[req[r].in.productId].stock

(* C9: removeFromCart removes every line-item of the user's cart whose   *)
(* productId matches and keeps the others in their order; with no match  *)
(* the cart is unchanged and the answer is still 200, so a second        *)
(* application changes nothing.                                          *)
RECURSIVE Without(_, _)
Without(cart, pid) ==
  IF cart = <<>> THEN <<>>
  ELSE IF Head(cart).productId = pid THEN Without(Tail(cart), pid)
  ELSE <<Head(cart)>> \o Without(Tail(cart), pid)

C9_PullStep(r) ==
  At(r, "removeFromCart", "start") /\ req'[r].pc = "read" /\ ExplicitUser(req[r]) \in DOMAIN users

C9_Removes ==
  \A r \in Slots :
    C9_PullStep(r) =>
      LET u == ExplicitUser(req[r])
          pid == req[r].param
      IN /\ users'[u].cart = Without(users[u].cart, pid)
         /\ \A i \in 1..Len(users'[u].cart) : users'[u].cart[i].productId # pid
         /\ (\A i \in 1..Len(users[u].cart) : users[u].cart[i].productId # pid) => users' = users
         /\ \A v \in DOMAIN users : v # u => users'[v] = users[v]
         /\ products' = products

C9_Answered ==
  \A r \in Slots :
    ( /\ req[r].h = "removeFromCart" /\ req[r].pc = "done"
      /\ ExplicitUser(req[r]) \in DOMAIN users
      /\ IsObjectId(req[r].param) )
    => /\ req[r].status = 200
       /\ \A i \in 1..Len(req[r].res) : req[r].res[i].productId # req[r].param

C9_RemoveFromCartRemovesAll == [][C9_Removes]_vars /\ []C9_Answered

(* a removal that dropped two line-items and kept one of another product *)
C9_Witness ==
  \E r \in Slots :
    /\ req[r].h = "removeFromCart" /\ req[r].pc = "done" /\ req[r].status = 200
    /\ Len(req[r].res) = 1
    /\ req[r].actor \in DOMAIN users
    /\ Len(users[req[r].actor].cart) = 1

(* C10: a GET /cart request naming an existing user is answered 200 by   *)
(* the getCart handler with that user's cart, and one naming an absent   *)
(* user is answered 404.                                                 *)
C10_GetCartServed ==
  \A r \in Slots :
    (req[r].pc = "done" /\ req[r].method = "GET" /\ req[r].path = <<"cart">>
       /\ IsObjectId(req[r].in.qUserId))
    => /\ req[r].h = "getCart"
       /\ IF req[r].in.qUserId \in DOMAIN users
          THEN req[r].status = 200 /\ req[r].res = CartView(users, products, req[r].in.qUserId)
          ELSE req[r].status = 404

(* C11: on the cart routes the acting user is the identity of the        *)
(* request's bearer token whenever the token is valid, the explicit      *)
(* userId counting only without one: a cart request with a valid token   *)
(* is never refused for want of a userId, and the user whose cart it     *)
(* acts on is the token's user.                                          *)
CartHandlers == {"addToCart", "removeFromCart", "getCart"}

C11_TokenIdentityWins ==
  \A r \in Slots :
    (req[r].h \in CartHandlers /\ req[r].pc = "done" /\ TokenOk(req[r].tok))
    => /\ req[r].msg # "userId is required (provide token or userId)"
       /\ req[r].actor \in {"", req[r].tok.id}

(* C12: placeOrder takes the items in input order, item i being checked  *)
(* only after items 1..i-1 were each checked and decremented; its check  *)
(* changes nothing in the store and fails with "Product not found" only  *)
(* for an absent product and with "Insufficient stock" only for a stock  *)
(* below the quantity; a request that failed at item N has decremented   *)
(* items 1..N-1 and created no Order; it changes nothing afterwards, and *)
(* a stock never rises except by a restore step of a cancelOrder.        *)
FailedAtItem(r) == PlaceEnded(r) /\ req[r].msg \in {"Product not found", "Insufficient stock"}

C12_Prefix(q) ==
  /\ Len(q.processed) = q.i - 1
  /\ \A k \in 1..(q.i - 1) :
       /\ q.processed[k].productId = q.in.items[k].productId
       /\ q.processed[k].quantity = q.in.items[k].quantity

C12_FindStep ==
  \A r \in Slots :
    (Placing(r) /\ req[r].pc = "find" /\ req'[r] # req[r]) =>
      LET q == req[r]
          item == q.in.items[q.i]
      IN /\ C12_Prefix(q)
         /\ store' = store
         /\ req'[r].i = q.i
         /\ req'[r].pc \in {"dec", "done"}
         /\ req'[r].pc = "dec" =>
              /\ item.productId \in DOMAIN products
              /\ products[item.productId].stock >= item.quantity
         /\ req'[r].msg = "Insufficient stock" =>
              /\ req'[r].status = 400
              /\ products[item.productId].stock < item.quantity
         /\ req'[r].msg = "Product not found" =>
              /\ req'[r].status = 404
              /\ item.productId \notin DOMAIN products

C12_DecStep ==
  \A r \in Slots :
    (Placing(r) /\ req[r].pc = "dec" /\ req'[r] # req[r]) =>
      LET q == req[r]
          item == q.in.items[q.i]
      IN /\ products' = [products EXCEPT ![item.productId].stock = @ - item.quantity]
         /\ IF q.i < Len(q.in.items)
            THEN req'[r].pc = "find" /\ req'[r].i = q.i + 1
            ELSE req'[r].pc = "save"

C12_AfterFailure ==
  \A r \in Slots :
    (FailedAtItem(r) /\ req'[r] # req[r]) => (store' = store /\ req'[r] = Idle)

C12_NoCompensation ==
  \A p \in DOMAIN products :
    (p \in DOMAIN products' /\ products'[p].stock > products[p].stock) =>
      \E r \in Slots : At(r, "cancelOrder", "restore") /\ req'[r] # req[r]

C12_Failed ==
  \A r \in Slots :
    FailedAtItem(r) => (req[r].oid = "" /\ C12_Prefix(req[r]))

C12_PartialDecrementKept ==
  /\ []C12_Failed
  /\ [][C12_FindStep /\ C12_DecStep /\ C12_AfterFailure /\ C12_NoCompensation]_vars

(* item 1 of p1 was decremented, item 2 asked for more of p2 than there  *)
(* is: p1 is one short and no order was ever stored                      *)
C12_Witness ==
  \E r \in Slots :
    /\ FailedAtItem(r) /\ req[r].i = 2
    /\ req[r].in.items = <<It("p1", 1), It("p2", 2)>>
    /\ products["p1"].stock = Products0["p1"].stock - 1
    /\ products["p2"].stock = Products0["p2"].stock
    /\ created = 0

(* C13: the stock check and the decrement of placeOrder are two store    *)
(* operations.  A request decrements only after its check passed on the  *)
(* stock it read; the decrement subtracts the quantity from whatever the *)
(* stock is by then; and a stock falls below zero only by a decrement    *)
(* whose request had read a higher stock than the product then has, that *)
(* is, with another placement in between.  Two overlapping placements of *)
(* one product, each within the stock and together above it, can both    *)
(* pass the check, both be answered 201 and leave the stock negative.    *)
C13_CheckedOnRead ==
  \A r \in Slots :
    (Placing(r) /\ req[r].pc = "dec") =>
      req[r].prod.stock >= req[r].in.items[req[r].i].quantity

C13_DecUnconditional ==
  \A r \in Slots :
    (Placing(r) /\ req[r].pc = "dec" /\ req'[r] # req[r]) =>
      LET item == req[r].in.items[req[r].i]
      IN /\ products'[item.productId].stock = products[item.productId].stock - item.quantity
         /\ req'[r].pc \in {"find", "save"}

C13_NegativeOnlyByStaleRead ==
  \A p \in DOMAIN products :
    (products'[p].stock < 0 /\ products[p].stock >= 0) =>
      \E r \in Slots :
        /\ Placing(r) /\ req[r].pc = "dec" /\ req'[r] # req[r]
        /\ req[r].in.items[req[r].i].productId = p
        /\ products[p].stock < req[r].prod.stock

C13_OverdrawRace ==
  /\ []C13_CheckedOnRead
  /\ [][C13_DecUnconditional /\ C13_NegativeOnlyByStaleRead]_vars

(* both requests read stock 1 of p2, both ordered 1, both were answered  *)
(* 201, and the stock is -1                                              *)
C13_Witness ==
  /\ \A r \in Slots :
       /\ PlaceEnded(r) /\ req[r].status = 201
       /\ req[r].in.items = <<It("p2", 1)>>
       /\ req[r].prod.stock = Products0["p2"].stock
       /\ req[r].oid \in DOMAIN orders
  /\ req["r1"].oid # req["r2"].oid
  /\ products["p2"].stock = Products0["p2"].stock - 2
  /\ products["p2"].stock < 0

(* C14: updateDeliveryTracking on an existing order with a status sets   *)
(* deliveryTracking.status to that status and orderStatus to delivered   *)
(* when the status is exactly "delivered" and to shipped otherwise,      *)
(* whatever the orderStatus was, and changes nothing else; without a     *)
(* status it is answered 400 and changes nothing.                        *)
Tracking(r) == req[r].h = "updateDeliveryTracking" /\ req[r].reached

C14_UpdateStep ==
  \A r \in Slots :
    (Tracking(r) /\ req[r].pc = "start" /\ req'[r] # req[r]) =>
      LET oid == req[r].in.orderId
          status == req[r].in.status
      IN IF status = ""
         THEN req'[r].status = 400 /\ store' = store
         ELSE oid \in DOMAIN orders =>
                /\ req'[r].status = 200
                /\ DOMAIN orders' = DOMAIN orders
                /\ orders'[oid].tracking = status
                /\ orders'[oid].orderStatus = (IF status = "delivered" THEN "delivered" ELSE "shipped")
                /\ orders'[oid] = [orders[oid] EXCEPT !.tracking = orders'[oid].tracking,
                                                     !.orderStatus = orders'[oid].orderStatus]
                /\ \A o \in DOMAIN orders : o # oid => orders'[o] = orders[o]
                /\ users' = users /\ products' = products /\ created' = created

C14_Answered ==
  \A r \in Slots :
    (Tracking(r) /\ req[r].pc = "done" /\ req[r].in.status = "") => req[r].status = 400

C14_TrackingOverwrites == []C14_Answered /\ [][C14_UpdateStep]_vars

(* a status that is not exactly "delivered" left the order shipped *)
C14_Witness ==
  \E r \in Slots :
    /\ Tracking(r) /\ req[r].pc = "done" /\ req[r].status = 200
    /\ req[r].in.status = "Delivered"
    /\ orders[req[r].in.orderId].tracking = "Delivered"
    /\ orders[req[r].in.orderId].orderStatus = "shipped"

(* C15: stock conservation.  With requests handled one at a time, no     *)
(* updateProduct, and every placeOrder naming existing products in       *)
(* positive quantities within the stock, with an address and a payment   *)
(* method: whenever no request is in progress, every product's initial   *)
(* stock equals its stock plus its quantities over the stored orders.    *)
RECURSIVE QuantityIn(_, _)
QuantityIn(items, p) ==
  IF items = <<>> THEN 0
  ELSE (IF Head(items).productId = p THEN Head(items).quantity ELSE 0) + QuantityIn(Tail(items), p)

RECURSIVE QuantityOrdered(_, _, _)
QuantityOrdered(os, S, p) ==
  IF S = {} THEN 0
  ELSE LET o == CHOOSE x \in S : TRUE
       IN QuantityIn(os[o].items, p) + QuantityOrdered(os, S \ {o}, p)

Quiet == \A r \in Slots : req[r].h = "idle"

C15_StockConserved ==
  Quiet =>
    \A p \in DOMAIN products :
      Products0[p].stock = products[p].stock + QuantityOrdered(orders, DOMAIN orders, p)

(* C16: the stock of an order is restored at most once.  Of the           *)
(* cancelOrder requests on one order at most one is answered 200, and,   *)
(* orders being the only source of restored stock, no product's stock    *)
(* ever exceeds its initial stock.                                       *)
Cancelled(r) == req[r].h = "cancelOrder" /\ req[r].pc = "done" /\ req[r].status = 200

C16_RestoredOnce ==
  /\ \A r, s \in Slots :
       (r # s /\ Cancelled(r) /\ Cancelled(s)) => req[r].param # req[s].param
  /\ \A p \in DOMAIN products : products[p].stock <= Products0[p].stock

====
